---------------------------- MODULE Spec2Model ----------------------------
(***************************************************************************)
(* A model of llm-router: the difficulty estimator                         *)
(* (routing/difficulty.py), the response verifier (routing/verifier.py)    *)
(* and the retry / escalation state machine of LLMRouter.route             *)
(* (routing/router.py).                                                    *)
(*                                                                         *)
(* Text is a sequence of one-character strings, so that lower(), strip(),  *)
(* split(), substring tests and the \b word-boundary searches are computed *)
(* as Python computes them.  Scores are integers: sub-scores and the       *)
(* weighted sum are in millionths, a difficulty is in thousandths (the     *)
(* code rounds it to 3 decimals), money is in nano-USD before round(.., 6) *)
(* and in micro-USD after it.                                              *)
(***************************************************************************)
EXTENDS Integers, Sequences, FiniteSets, TLC

(***************************************************************************)
(* Characters and the str methods the code uses.                           *)
(***************************************************************************)
UpperCase == <<"A","B","C","D","E","F","G","H","I","J","K","L","M","N","O","P","Q","R","S","T","U","V","W","X","Y","Z">>

LowerCase == <<"a","b","c","d","e","f","g","h","i","j","k","l","m","n","o","p","q","r","s","t","u","v","w","x","y","z">>

Digits == {"0","1","2","3","4","5","6","7","8","9"}

Whitespace == {" ", "\t", "\n", "\r"}

Range(f) == {f[i] : i \in DOMAIN f}

Min(a, b) == IF a <= b THEN a ELSE b

Max(a, b) == IF a >= b THEN a ELSE b

\* str.lower() on one character
LowerChar(c) ==
  IF c \in Range(UpperCase)
  THEN LowerCase[CHOOSE i \in DOMAIN UpperCase : UpperCase[i] = c]
  ELSE c

\* str.lower()
Lower(s) == [i \in 1..Len(s) |-> LowerChar(s[i])]

\* the regex class \w
IsWordChar(c) == c \in Range(UpperCase) \cup Range(LowerCase) \cup Digits \cup {"_"}

\* sub in s
Contains(s, sub) ==
  \E i \in 1..(Len(s) - Len(sub) + 1) : SubSeq(s, i, i + Len(sub) - 1) = sub

\* s.startswith(pre)
StartsWith(s, pre) == Len(s) >= Len(pre) /\ SubSeq(s, 1, Len(pre)) = pre

\* s.endswith(suf)
EndsWith(s, suf) ==
  Len(s) >= Len(suf) /\ SubSeq(s, Len(s) - Len(suf) + 1, Len(s)) = suf

\* s.count(c) for a one-character c
Count(s, c) == Cardinality({i \in 1..Len(s) : s[i] = c})

\* s.strip()
Strip(s) ==
  LET keep == {i \in 1..Len(s) : s[i] \notin Whitespace}
  IN  IF keep = {} THEN <<>>
      ELSE SubSeq(s, CHOOSE i \in keep : \A j \in keep : i <= j,
                     CHOOSE i \in keep : \A j \in keep : i >= j)

RECURSIVE SplitFrom(_, _, _, _)
SplitFrom(s, i, cur, out) ==
  IF i > Len(s) THEN (IF cur = <<>> THEN out ELSE Append(out, cur))
  ELSE IF s[i] \in Whitespace
       THEN SplitFrom(s, i + 1, <<>>, IF cur = <<>> THEN out ELSE Append(out, cur))
       ELSE SplitFrom(s, i + 1, Append(cur, s[i]), out)

\* s.split(): the maximal runs of non-whitespace, in order
Split(s) == SplitFrom(s, 1, <<>>, <<>>)

\* re.search(r"\b(w1|w2|...)\b", s) is not None, for words made of \w characters
WordSearch(words, s) ==
  \E w \in words : \E i \in 1..(Len(s) - Len(w) + 1) :
     /\ SubSeq(s, i, i + Len(w) - 1) = w
     /\ (i = 1 \/ ~IsWordChar(s[i - 1]))
     /\ (i + Len(w) - 1 = Len(s) \/ ~IsWordChar(s[i + Len(w)]))

\* s[:n]
Prefix(s, n) == SubSeq(s, 1, Min(n, Len(s)))

(***************************************************************************)
(* routing/difficulty.py: QueryDifficultyEstimator                         *)
(***************************************************************************)

EASY_KEYWORDS ==
  {
    <<"w","h","a","t">>,
    <<"d","e","f","i","n","e">>,
    <<"d","e","f","i","n","i","t","i","o","n">>,
    <<"l","i","s","t">>,
    <<"n","a","m","e">>,
    <<"w","h","o">>,
    <<"w","h","e","n">>,
    <<"w","h","e","r","e">>
  }

MEDIUM_KEYWORDS ==
  {
    <<"e","x","p","l","a","i","n">>,
    <<"d","e","s","c","r","i","b","e">>,
    <<"s","u","m","m","a","r","i","z","e">>,
    <<"c","o","m","p","a","r","e">>,
    <<"d","i","f","f","e","r","e","n","c","e">>,
    <<"o","v","e","r","v","i","e","w">>
  }

HARD_KEYWORDS ==
  {
    <<"w","h","y">>,
    <<"h","o","w">>,
    <<"p","r","o","v","e">>,
    <<"d","e","r","i","v","e">>,
    <<"a","n","a","l","y","z","e">>,
    <<"r","e","a","s","o","n">>,
    <<"j","u","s","t","i","f","y">>,
    <<"e","v","a","l","u","a","t","e">>,
    <<"c","r","i","t","i","q","u","e">>,
    <<"i","m","p","l","i","c","a","t","i","o","n","s">>
  }

\* the alternatives of the first regex of _structure_score
CONJUNCTION_WORDS ==
  {
    <<"a","n","d">>,
    <<"o","r">>,
    <<"v","s">>,
    <<"v","e","r","s","u","s">>,
    <<"w","h","i","l","e">>
  }

\* the alternatives of the second regex of _structure_score
CAUSAL_WORDS ==
  {
    <<"i","f">>,
    <<"b","e","c","a","u","s","e">>,
    <<"t","h","e","r","e","f","o","r","e">>,
    <<"h","o","w","e","v","e","r">>
  }

\* the multi-part evaluative phrases of estimate
MULTI_PART_PHRASES ==
  {
    <<"a","d","v","a","n","t","a","g","e","s"," ","a","n","d"," ","d","i","s","a","d","v","a","n","t","a","g","e","s">>,
    <<"p","r","o","s"," ","a","n","d"," ","c","o","n","s">>,
    <<"t","r","a","d","e","-","o","f","f","s">>,
    <<"i","m","p","l","i","c","a","t","i","o","n","s">>,
    <<"l","i","m","i","t","a","t","i","o","n","s">>
  }

\* one, in millionths: the unit of the sub-scores and of the weighted sum


\* round(x, 3) of a value in millionths, as a number of thousandths
Round3(x) == (x + 500) \div 1000

\* a length score that counts the blanks instead of the words of split()
length_score_counts_blanks(query) ==
  LET word_count == Count(query, " ") + 1
  IN  IF word_count <= 5 THEN 100000
      ELSE IF word_count >= 30 THEN 1000000
      ELSE ((word_count - 5) * 1000000) \div 25

length_score(query) ==
  LET word_count == Len(Split(query))
  IN  IF word_count <= 5 THEN 100000
      ELSE IF word_count >= 30 THEN 1000000
      ELSE ((word_count - 5) * 1000000) \div 25

keyword_score(query) ==
  LET query_lower == Lower(query)
  IN  IF \E k \in HARD_KEYWORDS : Contains(query_lower, k) THEN 1000000
      ELSE IF \E k \in MEDIUM_KEYWORDS : Contains(query_lower, k) THEN 500000
      ELSE IF \E k \in EASY_KEYWORDS : Contains(query_lower, k) THEN 100000
      ELSE 300000

structure_score(query) ==
  LET s1 == IF Count(query, ".") + Count(query, "?") > 1 THEN 400000 ELSE 0
      s2 == IF WordSearch(CONJUNCTION_WORDS, Lower(query)) THEN 300000 ELSE 0
      s3 == IF WordSearch(CAUSAL_WORDS, Lower(query)) THEN 300000 ELSE 0
  IN  Min(s1 + s2 + s3, 1000000)

\* an estimate without the floors for reasoning intent and multi-part phrasing
estimate_without_floors(query) ==
  LET length == length_score(query)
      keyword == keyword_score(query)
      structure == structure_score(query)
      base == (25 * length + 50 * keyword + 25 * structure) \div 100
  IN  Round3(Min(base, 1000000))

\* the difficulty of a query, in thousandths
estimate(query) ==
  LET length == length_score(query)
      keyword == keyword_score(query)
      structure == structure_score(query)
      base == (25 * length + 50 * keyword + 25 * structure) \div 100
      q == Lower(query)
      d1 == IF \E k \in HARD_KEYWORDS : Contains(q, k) THEN Max(base, 600000) ELSE base
      d2 == IF \E p \in MULTI_PART_PHRASES : Contains(q, p) THEN Max(d1, 500000) ELSE d1
  IN  Round3(Min(d2, 1000000))

(***************************************************************************)
(* routing/verifier.py: ResponseVerifier                                   *)
(*                                                                         *)
(* A similarity is in thousandths.  What the embedding service does is     *)
(* outside the program, so one relevance check is given an outcome emb:    *)
(* whether a client is configured, whether each of the two _embed calls    *)
(* returned a vector, and the cosine similarity of the two vectors.        *)
(***************************************************************************)

UNCERTAINTY_PHRASES ==
  {
    <<"i","'","m"," ","n","o","t"," ","s","u","r","e">>,
    <<"i"," ","a","m"," ","n","o","t"," ","s","u","r","e">>,
    <<"c","a","n","n","o","t"," ","d","e","t","e","r","m","i","n","e">>,
    <<"u","n","c","l","e","a","r">>,
    <<"i","t"," ","d","e","p","e","n","d","s">>,
    <<"m","i","g","h","t"," ","b","e">>,
    <<"m","a","y"," ","b","e">>
  }

\* stop_words of _basic_coverage
STOP_WORDS ==
  {
    <<"t","h","e">>,
    <<"a","n","d">>,
    <<"o","r">>,
    <<"b","u","t">>,
    <<"f","o","r">>,
    <<"w","i","t","h">>,
    <<"f","r","o","m">>,
    <<"t","h","a","t">>,
    <<"t","h","i","s">>,
    <<"w","h","a","t">>,
    <<"h","o","w">>,
    <<"w","h","y">>
  }

\* the prefixes of _is_list_query
LIST_WORDS ==
  {
    <<"l","i","s","t">>,
    <<"n","a","m","e">>,
    <<"g","i","v","e">>,
    <<"m","e","n","t","i","o","n">>
  }

BAD_ENDINGS ==
  {
    <<" ","b","y">>,
    <<" ","w","h","i","c","h">>,
    <<" ","t","h","a","t">>,
    <<" ","b","e","c","a","u","s","e">>,
    <<" ","s","u","c","h"," ","a","s">>,
    <<" ","i","n","c","l","u","d","i","n","g">>,
    <<" ","l","i","k","e">>,
    <<" ","f","o","r"," ","e","x","a","m","p","l","e">>,
    <<" ","a","n","d">>,
    <<" ","o","r">>,
    <<" ","b","u","t">>,
    <<" ","w","i","t","h">>,
    <<" ","f","r","o","m">>,
    <<" ","t","o">>,
    <<" ","i","n">>,
    <<" ","o","n">>,
    <<" ","a","t">>,
    <<" ","o","f">>,
    <<" ","t","h","e">>,
    <<" ","a">>,
    <<" ","a","n">>,
    <<" ","i","s">>,
    <<" ","a","r","e">>,
    <<" ","w","a","s">>,
    <<" ","w","e","r","e">>,
    <<" ","h","a","s">>,
    <<" ","h","a","v","e">>,
    <<" ","c","a","n">>,
    <<" ","c","o","u","l","d">>,
    <<" ","s","h","o","u","l","d">>,
    <<" ","w","o","u","l","d">>,
    <<" ","w","i","l","l">>,
    <<" ","m","a","y">>,
    <<" ","m","i","g","h","t">>
  }

RELEVANCE_FAIL == 600

RELEVANCE_WARN == 700

\* f"{similarity:.3f}" of a similarity in thousandths
Format3f(n) ==
  LET frac == n % 1000
  IN  ToString(n \div 1000) \o "."
        \o (IF frac < 10 THEN "00" ELSE IF frac < 100 THEN "0" ELSE "")
        \o ToString(frac)

RECURSIVE JoinFrom(_, _)
JoinFrom(reasons, i) ==
  IF i > Len(reasons) THEN ""
  ELSE IF i = Len(reasons) THEN reasons[i]
  ELSE reasons[i] \o ", " \o JoinFrom(reasons, i + 1)

\* ', '.join(reasons)
Join(reasons) == JoinFrom(reasons, 1)

\* list.remove(x): without the first occurrence of x
Remove(seq, x) ==
  LET at == {i \in 1..Len(seq) : seq[i] = x}
      first == CHOOSE i \in at : \A j \in at : i <= j
  IN  IF at = {} THEN seq
      ELSE SubSeq(seq, 1, first - 1) \o SubSeq(seq, first + 1, Len(seq))

truncate_for_embedding(text) == Prefix(text, 500)

basic_coverage(query, answer) ==
  LET keywords == SelectSeq(Split(Lower(query)),
                            LAMBDA word : Len(word) > 3 /\ word \notin STOP_WORDS)
      answer_lower == Lower(answer)
      hits == Cardinality({i \in 1..Len(keywords) : Contains(answer_lower, keywords[i])})
  IN  IF keywords = <<>> THEN TRUE
      ELSE hits >= Max(1, Len(keywords) \div 3)

\* a verifier that knows no list-style query
is_list_query_never(query) == FALSE

\* a list-query test that forgets to lower-case the query
is_list_query_case_sensitive(query) ==
  IF query = <<>> THEN FALSE
  ELSE \E word \in LIST_WORDS : StartsWith(query, word)

is_list_query(query) ==
  IF query = <<>> THEN FALSE
  ELSE \E word \in LIST_WORDS : StartsWith(Lower(query), word)

\* a relevance check that treats a failed _embed call as an off-topic answer
check_relevance_embed_failure_off_topic(emb, difficulty) ==
  IF ~emb.client THEN [is_relevant |-> TRUE, similarity |-> 1000]
  ELSE IF ~emb.query_ok \/ ~emb.answer_ok
       THEN [is_relevant |-> FALSE, similarity |-> 0]
  ELSE [is_relevant |-> emb.cosine >= RELEVANCE_FAIL, similarity |-> emb.cosine]

\* a relevance check that fails below the warning threshold
check_relevance_warn_threshold(emb, difficulty) ==
  IF ~emb.client THEN [is_relevant |-> TRUE, similarity |-> 1000]
  ELSE IF ~emb.query_ok \/ ~emb.answer_ok
       THEN [is_relevant |-> TRUE, similarity |-> 1000]
  ELSE [is_relevant |-> emb.cosine >= RELEVANCE_WARN, similarity |-> emb.cosine]

\* the pair (is_relevant, similarity) that _check_relevance returns
check_relevance(emb, difficulty) ==
  IF ~emb.client THEN [is_relevant |-> TRUE, similarity |-> 1000]
  ELSE IF ~emb.query_ok \/ ~emb.answer_ok
       THEN [is_relevant |-> TRUE, similarity |-> 1000]
  ELSE IF difficulty >= 600
       THEN [is_relevant |-> emb.cosine >= RELEVANCE_FAIL, similarity |-> emb.cosine]
       ELSE [is_relevant |-> emb.cosine >= RELEVANCE_FAIL, similarity |-> emb.cosine]

is_semantically_incomplete(answer) ==
  LET text == Lower(Strip(answer))
  IN  IF EndsWith(text, <<".">>) \/ EndsWith(text, <<"!">>) \/ EndsWith(text, <<"?">>)
      THEN FALSE
      ELSE \E be \in BAD_ENDINGS : EndsWith(text, be)

\* an uncertainty check that forgets to lower-case the answer
uncertainty_check_case_sensitive(answer) ==
  \E p \in UNCERTAINTY_PHRASES : Contains(answer, p)

\* step 2 of verify(): any(p in answer.lower() for p in UNCERTAINTY_PHRASES)
uncertainty_check(answer) ==
  \E p \in UNCERTAINTY_PHRASES : Contains(Lower(answer), p)

\* a combination in which low relevance is fatal
verdict_passed_relevance_fatal(truncated, uncertainty, low_relevance, difficulty) ==
  ~(truncated \/ uncertainty \/ low_relevance)

\* the last step of verify(): passed, from the three flags
verdict_passed(truncated, uncertainty, low_relevance, difficulty) ==
  IF truncated \/ uncertainty THEN FALSE
  ELSE IF low_relevance THEN difficulty >= 300
  ELSE TRUE

\* The VerificationResult of verify().  A query of None is the empty text: the
\* code reads the query only under "if query", which takes both the same way.
verify(answer, output_tokens, max_tokens, query, difficulty, emb) ==
  LET hit == output_tokens >= max_tokens /\ is_semantically_incomplete(answer)
      r1 == IF hit THEN <<"truncated">> ELSE <<>>
      allowed == hit /\ query # <<>> /\ is_list_query(query)
      truncated == hit /\ ~allowed
      r2 == IF allowed THEN Remove(r1, "truncated") ELSE r1
      uncertainty == uncertainty_check(answer)
      r3 == IF uncertainty THEN Append(r2, "uncertainty") ELSE r2
      checked == query # <<>> /\ difficulty >= 300
      covered == basic_coverage(query, answer)
      rel == check_relevance(emb, difficulty)
      low_relevance ==
        checked /\ (~covered \/ (difficulty < 600 /\ ~rel.is_relevant))
      r4 == IF ~checked THEN r3
            ELSE IF ~covered
                 THEN Append(r3, "low_relevance (basic coverage failed)")
            ELSE IF difficulty < 600
                 THEN IF ~rel.is_relevant
                      THEN Append(r3, "low_relevance (similarity: "
                                        \o Format3f(rel.similarity) \o ")")
                      ELSE r3
            ELSE IF rel.similarity < RELEVANCE_WARN
                 THEN Append(r3, "low_relevance (similarity: "
                                   \o Format3f(rel.similarity)
                                   \o ", but hard query - allowed)")
                 ELSE r3
      passed == verdict_passed(truncated, uncertainty, low_relevance, difficulty)
  IN  [passed |-> passed, reasons |-> r4, truncated |-> truncated,
       uncertainty |-> uncertainty, low_relevance |-> low_relevance]

(***************************************************************************)
(* The inputs of the model: the queries a caller passes to route() and the *)
(* texts a backend answers with.                                           *)
(***************************************************************************)

\* "What is Python?"
QueryWhat ==
  <<"W","h","a","t"," ","i","s"," ","P","y","t","h","o","n","?">>

\* "List three programming languages"
QueryList ==
  <<"L","i","s","t"," ","t","h","r","e","e"," ","p","r","o","g","r","a","m","m","i","n","g"," ","l","a","n","g","u","a","g","e","s">>

\* "Explain the difference between Python and Java"
QueryExplain ==
  <<"E","x","p","l","a","i","n"," ","t","h","e"," ","d","i","f","f","e","r","e","n","c","e"," ","b","e","t","w","e","e","n"," ","P","y","t","h","o","n"," ","a","n","d"," ","J","a","v","a">>

\* "Name and compare two languages"
QueryNameCompare ==
  <<"N","a","m","e"," ","a","n","d"," ","c","o","m","p","a","r","e"," ","t","w","o"," ","l","a","n","g","u","a","g","e","s">>

\* "Explain the main ideas behind relational database systems in detail"
QueryBoundary ==
  <<"E","x","p","l","a","i","n"," ","t","h","e"," ","m","a","i","n"," ","i","d","e","a","s"," ","b","e","h","i","n","d"," ","r","e","l","a","t","i","o","n","a","l"," ","d","a","t","a","b","a","s","e"," ","s","y","s","t","e","m","s"," ","i","n"," ","d","e","t","a","i","l">>

\* "Prove that the halting problem is undecidable"
QueryProve ==
  <<"P","r","o","v","e"," ","t","h","a","t"," ","t","h","e"," ","h","a","l","t","i","n","g"," ","p","r","o","b","l","e","m"," ","i","s"," ","u","n","d","e","c","i","d","a","b","l","e">>

\* ""
QueryEmpty ==
  <<>>

\* "What are the advantages and disadvantages of deep learning?"
QueryAdvantages ==
  <<"W","h","a","t"," ","a","r","e"," ","t","h","e"," ","a","d","v","a","n","t","a","g","e","s"," ","a","n","d"," ","d","i","s","a","d","v","a","n","t","a","g","e","s"," ","o","f"," ","d","e","e","p"," ","l","e","a","r","n","i","n","g","?">>

\* "Show me Python": 'how' inside 'show'
QueryShow ==
  <<"S","h","o","w"," ","m","e"," ","P","y","t","h","o","n">>

Queries ==
  {QueryWhat, QueryList, QueryExplain, QueryNameCompare, QueryBoundary, QueryProve, QueryEmpty,
   QueryAdvantages, QueryShow}

\* "Python is a language."
AnswerComplete ==
  <<"P","y","t","h","o","n"," ","i","s"," ","a"," ","l","a","n","g","u","a","g","e",".">>

\* "Python is similar to"
AnswerDangling ==
  <<"P","y","t","h","o","n"," ","i","s"," ","s","i","m","i","l","a","r"," ","t","o">>

\* "It depends"
AnswerUnsure ==
  <<"I","t"," ","d","e","p","e","n","d","s">>

\* "Python may be similar to"
AnswerUnsureDangling ==
  <<"P","y","t","h","o","n"," ","m","a","y"," ","b","e"," ","s","i","m","i","l","a","r"," ","t","o">>

\* "Paris is nice."
AnswerOffTopic ==
  <<"P","a","r","i","s"," ","i","s"," ","n","i","c","e",".">>

Answers ==
  {AnswerComplete, AnswerDangling, AnswerUnsure, AnswerUnsureDangling, AnswerOffTopic}

(***************************************************************************)
(* llm/base.py, llm/local.py, llm/openai_llm.py: what a backend returns.   *)
(* A GenerationResult is a function from its keys to their values; the     *)
(* latency is left out (no decision reads it).                             *)
(***************************************************************************)
MaxInputTokens == 2

MaxShortOutput == 1

\* max_tokens of BaseLLM.generate when the caller passes none
DEFAULT_MAX_TOKENS == 256

\* round(x, 6) of an amount in nano-USD, as a number of micro-USD
Round6(x) == (x + 500) \div 1000

\* the token counts a backend may report for a call with budget max_tokens:
\* a short answer, one that used half the budget (the whole budget of the
\* call before a retry), or one that used the whole budget
OutputTokenChoices(max_tokens) ==
  (1..MaxShortOutput) \cup {max_tokens \div 2, max_tokens}

InputTokenChoices == 1..MaxInputTokens

\* the results LocalLLM.generate may return
LocalResults(max_tokens) ==
  {[text |-> a, input_tokens |-> i, output_tokens |-> o,
    model |-> "local-gguf", device |-> "metal/cpu"] :
     a \in Answers, i \in InputTokenChoices, o \in OutputTokenChoices(max_tokens)}

\* cost_usd of OpenAILLM.generate, in nano-USD
openai_cost(input_tokens, output_tokens) ==
  input_tokens * 5000 + output_tokens * 15000

\* the results the remote backend may return: OpenAILLM meters its calls
\* (cost_usd), a backend such as the tests' MockRemoteLLM does not
RemoteResults(kind, max_tokens) ==
  IF kind = "metered"
  THEN {[text |-> a, input_tokens |-> i, output_tokens |-> o,
         model |-> "gpt-4o", device |-> "openai_api",
         cost_usd |-> Round6(openai_cost(i, o))] :
          a \in Answers, i \in InputTokenChoices, o \in OutputTokenChoices(max_tokens)}
  ELSE {[text |-> a, input_tokens |-> i, output_tokens |-> o,
         model |-> "mock-remote-llm", device |-> "api"] :
          a \in Answers, i \in InputTokenChoices, o \in OutputTokenChoices(max_tokens)}

\* the similarities the embedding service may produce, in thousandths
Similarities == {500, 650, 900}

\* what one relevance check may meet, given the verifier's _embedding_client
EmbeddingOutcomes(client) ==
  IF ~client
  THEN {[client |-> FALSE, query_ok |-> FALSE, answer_ok |-> FALSE, cosine |-> 0]}
  ELSE {[client |-> TRUE, query_ok |-> FALSE, answer_ok |-> TRUE, cosine |-> 0],
        [client |-> TRUE, query_ok |-> TRUE, answer_ok |-> FALSE, cosine |-> 0]}
       \cup {[client |-> TRUE, query_ok |-> TRUE, answer_ok |-> TRUE, cosine |-> s] :
               s \in Similarities}

(***************************************************************************)
(* routing/router.py: LLMRouter                                            *)
(***************************************************************************)
\* a router that allows two regenerations
max_retries_two == 1 + 1

\* self.max_retries
max_retries == 1

LOCAL_COST == 1

REMOTE_COST == 20

\* band limits that fall in the lower band
max_tokens_for_difficulty_inclusive(difficulty) ==
  IF difficulty <= 300 THEN 128
  ELSE IF difficulty <= 600 THEN 256
  ELSE 512

\* a budget table whose last band repeats the medium budget
max_tokens_for_difficulty_flat(difficulty) ==
  IF difficulty < 300 THEN 128
  ELSE IF difficulty < 600 THEN 256
  ELSE 256

max_tokens_for_difficulty(difficulty) ==
  IF difficulty < 300 THEN 128
  ELSE IF difficulty < 600 THEN 256
  ELSE 512

\* an entry whose easy band ends at 0.1 instead of 0.3
route_entry_low_threshold(difficulty, remote) ==
  IF difficulty < 100 THEN "easy"
  ELSE IF difficulty < 600 THEN "medium"
  ELSE IF remote = "none" THEN "raised"
  ELSE "hard"

\* an entry that sends a hard query to the local loop when there is no remote
\* backend
route_entry_fallback(difficulty, remote) ==
  IF difficulty < 300 THEN "easy"
  ELSE IF difficulty < 600 \/ remote = "none" THEN "medium"
  ELSE "hard"

\* where route() goes once it has the difficulty: the easy loop, the medium
\* loop, the direct remote call, or the ValueError of a hard query with no
\* remote backend
route_entry(difficulty, remote) ==
  IF difficulty < 300 THEN "easy"
  ELSE IF difficulty < 600 THEN "medium"
  ELSE IF remote = "none" THEN "raised"
  ELSE "hard"

\* build_continuation_prompt(original_query, partial_answer), the helper that
\* route() defines and never calls (the dash of "2-3" stands for U+2013)
build_continuation_prompt(original_query, partial_answer) ==
  <<"Q","u","e","s","t","i","o","n",":","\n">>
    \o original_query
    \o <<"\n","\n","P","a","r","t","i","a","l"," ","a","n","s","w","e","r",":","\n">>
    \o partial_answer
    \o <<"\n","\n","C","o","n","t","i","n","u","e"," ","t","h","e"," ","a","n","s","w","e","r","."," ","F","i","n","i","s","h"," ","t","h","e"," ","c","u","r","r","e","n","t"," ","s","e","n","t","e","n","c","e"," ","a","n","d"," ","c","o","n","c","l","u","d","e"," ","c","l","e","a","r","l","y"," ","i","n"," ","2","-","3"," ","s","e","n","t","e","n","c","e","s",".">>

\* a retry that sends the partial answer back for continuation
local_prompt_continuation(query, retry_count, local_result) ==
  IF retry_count > 0
  THEN build_continuation_prompt(query, local_result.text)
  ELSE query

\* the prompt of self.local_llm.generate(query, max_tokens=current_max_tokens)
local_prompt(query, retry_count, local_result) == query

\* a retry test that is off by one
may_retry_off_by_one(verdict, retry_count) ==
  verdict.truncated /\ retry_count <= max_retries

\* a loop that never regenerates
may_retry_never(verdict, retry_count) == FALSE

\* a loop that regenerates after any failed verdict
may_retry_any_failure(verdict, retry_count) ==
  retry_count < max_retries

\* "if verdict.truncated and retry_count < self.max_retries"
may_retry(verdict, retry_count) ==
  verdict.truncated /\ retry_count < max_retries

\* a retry that keeps the budget
retry_budget_same(current_max_tokens) == current_max_tokens

\* "current_max_tokens *= 2"
retry_budget(current_max_tokens) == current_max_tokens * 2

\* the two prices exchanged
estimated_remote_cost_swapped(result) ==
  result.input_tokens * 15000 + result.output_tokens * 5000

\* estimated_remote_cost, in nano-USD
estimated_remote_cost(result) ==
  result.input_tokens * 5000 + result.output_tokens * 15000

\* the value route() stores under "verification"
verification_text(verdict) ==
  IF verdict.passed THEN "passed" ELSE "failed: " \o Join(verdict.reasons)

\* dict.update: the keys of changes are set, the others kept
Update(result, changes) == changes @@ result

\* an easy path that tags any retried result as repaired
easy_return_repaired_on_retry(result, verdict, retry_count, difficulty) ==
  Update(result,
    [verification |-> verification_text(verdict),
     difficulty |-> difficulty,
     routing_decision |-> IF retry_count > 0 THEN "repaired" ELSE "local",
     cost_usd |-> 0,
     cost_saved_usd |-> Round6(estimated_remote_cost(result)),
     cost_saved |-> REMOTE_COST - LOCAL_COST])

\* the result the easy path returns (lines 143-157)
easy_return(result, verdict, retry_count, difficulty) ==
  Update(result,
    [verification |-> verification_text(verdict),
     difficulty |-> difficulty,
     routing_decision |-> IF retry_count > 0 /\ verdict.passed THEN "repaired" ELSE "local",
     cost_usd |-> 0,
     cost_saved_usd |-> Round6(estimated_remote_cost(result)),
     cost_saved |-> REMOTE_COST - LOCAL_COST])

\* the local result the medium path returns after a passing verdict (192-205)
medium_return(local_result, retry_count, difficulty) ==
  Update(local_result,
    [verification |-> "passed",
     difficulty |-> difficulty,
     routing_decision |-> IF retry_count > 0 THEN "repaired" ELSE "local",
     cost_usd |-> 0,
     cost_saved_usd |-> Round6(estimated_remote_cost(local_result)),
     cost_saved |-> REMOTE_COST - LOCAL_COST])

\* an escalation that reports the trusted remote answer as verified
escalated_return_marks_passed(remote_result, verdict, difficulty) ==
  Update(remote_result,
    [difficulty |-> difficulty,
     routing_decision |-> "escalated",
     cost_saved_usd |-> 0,
     cost_saved |-> 0,
     verification |-> "passed"])

\* an escalation that tags its result as the hard path does
escalated_return_as_remote(remote_result, verdict, difficulty) ==
  Update(remote_result,
    [difficulty |-> difficulty,
     routing_decision |-> "remote",
     cost_saved_usd |-> 0,
     cost_saved |-> 0,
     verification |-> "failed: " \o Join(verdict.reasons)])

\* the remote result the medium path returns after an escalation (209-217)
escalated_return(remote_result, verdict, difficulty) ==
  Update(remote_result,
    [difficulty |-> difficulty,
     routing_decision |-> "escalated",
     cost_saved_usd |-> 0,
     cost_saved |-> 0,
     verification |-> "failed: " \o Join(verdict.reasons)])

\* a degraded return that counts a saving as the passing return does
degraded_return_counts_saving(local_result, verdict, difficulty) ==
  Update(local_result,
    [verification |-> "failed: " \o Join(verdict.reasons),
     difficulty |-> difficulty,
     routing_decision |-> "local",
     cost_usd |-> 0,
     cost_saved_usd |-> Round6(estimated_remote_cost(local_result)),
     cost_saved |-> REMOTE_COST - LOCAL_COST])

\* the local result the medium path returns when the final verdict failed and
\* there is no remote backend (218-227)
degraded_return(local_result, verdict, difficulty) ==
  Update(local_result,
    [verification |-> "failed: " \o Join(verdict.reasons),
     difficulty |-> difficulty,
     routing_decision |-> "local",
     cost_usd |-> 0,
     cost_saved_usd |-> 0,
     cost_saved |-> 0])

\* a hard path that counts a saving on the remote result
hard_return_counts_saving(remote_result, verdict, difficulty) ==
  Update(remote_result,
    [difficulty |-> difficulty,
     routing_decision |-> "remote",
     cost_saved_usd |-> Round6(estimated_remote_cost(remote_result)),
     cost_saved |-> REMOTE_COST - LOCAL_COST,
     verification |-> verification_text(verdict)])

\* the remote result the hard path returns (233-249)
hard_return(remote_result, verdict, difficulty) ==
  Update(remote_result,
    [difficulty |-> difficulty,
     routing_decision |-> "remote",
     cost_saved_usd |-> 0,
     cost_saved |-> 0,
     verification |-> verification_text(verdict)])

\* a value for a variable that holds nothing yet
None == [none |-> TRUE]

VARIABLES
  remote_llm,          \* "none", "unmetered" or "metered": the router's remote backend
  embedding_client,    \* whether the verifier has an embedding client
  pc,                  \* where the route() call is
  query,               \* route()'s argument
  difficulty,          \* in thousandths
  max_tokens,
  retry_count,
  current_max_tokens,
  local_result,        \* result / local_result of the loops
  verdict,             \* the last VerificationResult
  returned,            \* what route() returned
  error,               \* what route() raised
  calls,               \* history: the backend calls made, in order
  verdicts,            \* history: the verdicts of the verify() calls, in order
  generated,           \* history: what the last backend call returned
  verify_call,         \* the arguments of a verify() call made on its own
  verify_result,       \* the VerificationResult of that call
  estimate_call,       \* a query, a padding and a keyword for estimate() calls made on their own
  estimate_results,    \* the values those calls returned
  parked,              \* the locals of a second route() invocation that is not running
  backends             \* the answers of stateless backends, for concurrent invocations

vars == <<remote_llm, embedding_client, pc, query, difficulty, max_tokens,
          retry_count, current_max_tokens, local_result, verdict, returned,
          error, calls, verdicts, generated, verify_call, verify_result,
          estimate_call, estimate_results, parked, backends>>

config == <<remote_llm, embedding_client>>

direct == <<verify_call, verify_result, estimate_call, estimate_results>>

concurrent == <<parked, backends>>

Call(backend, prompt, budget) ==
  [backend |-> backend, prompt |-> prompt, max_tokens |-> budget]

\* LLMRouter.__init__ and ResponseVerifier.__init__; no route() call yet
Init ==
  /\ remote_llm \in {"none", "unmetered", "metered"}
  /\ embedding_client \in BOOLEAN
  /\ pc = "idle"
  /\ query = <<>>
  /\ difficulty = 0
  /\ max_tokens = 0
  /\ retry_count = 0
  /\ current_max_tokens = 0
  /\ local_result = None
  /\ verdict = None
  /\ returned = None
  /\ error = "none"
  /\ calls = <<>>
  /\ verdicts = <<>>
  /\ generated = None
  /\ parked = None
  /\ backends = None
  /\ verify_call = None
  /\ verify_result = None
  /\ estimate_call = None
  /\ estimate_results = None

\* route(q) up to its first backend call (lines 92-114, 160-162, 229-231)
Route(q) ==
  /\ pc = "idle"
  /\ query' = q
  /\ difficulty' = estimate(q)
  /\ max_tokens' = max_tokens_for_difficulty(difficulty')
  /\ pc' = route_entry(difficulty', remote_llm)
  /\ error' = IF pc' = "raised" THEN "ValueError" ELSE error
  /\ retry_count' = 0
  /\ current_max_tokens' = IF pc' \in {"easy", "medium"} THEN max_tokens' ELSE current_max_tokens
  /\ UNCHANGED <<config, direct, concurrent, local_result, verdict, returned, calls, verdicts, generated>>

\* a route() that swallows the first failure of a backend and calls it again
GenerateFails_retried ==
  /\ pc \in {"easy", "medium", "escalate", "hard"}
  /\ calls' = Append(calls,
       CASE pc \in {"easy", "medium"} -> Call("local", query, current_max_tokens)
         [] pc = "escalate" -> Call("remote", query, DEFAULT_MAX_TOKENS)
         [] pc = "hard" -> Call("remote", query, max_tokens))
  /\ pc' = IF error = "none" /\ calls = <<>> THEN pc ELSE "raised"
  /\ error' = IF error = "none" /\ calls = <<>> THEN error ELSE "BackendError"
  /\ UNCHANGED <<config, direct, concurrent, query, difficulty, max_tokens, retry_count,
                 current_max_tokens, local_result, verdict, returned, verdicts,
                 generated>>

\* a backend's generate raises: route() catches nothing
GenerateFails ==
  /\ pc \in {"easy", "medium", "escalate", "hard"}
  /\ calls' = Append(calls,
       CASE pc \in {"easy", "medium"} ->
              Call("local", local_prompt(query, retry_count, local_result),
                   current_max_tokens)
         [] pc = "escalate" -> Call("remote", query, DEFAULT_MAX_TOKENS)
         [] pc = "hard" -> Call("remote", query, max_tokens))
  /\ pc' = "raised"
  /\ error' = "BackendError"
  /\ UNCHANGED <<config, direct, concurrent, query, difficulty, max_tokens, retry_count,
                 current_max_tokens, local_result, verdict, returned, verdicts,
                 generated>>

\* one pass of the easy loop (lines 116-141) and, when it leaves the loop,
\* the return (143-157)
EasyAttempt ==
  /\ pc = "easy"
  /\ calls' = Append(calls, Call("local", local_prompt(query, retry_count, local_result),
                                current_max_tokens))
  /\ \E result \in LocalResults(current_max_tokens) :
       /\ local_result' = result
       /\ generated' = result
       /\ \E emb \in EmbeddingOutcomes(embedding_client) :
          \E v \in {verify(result.text, result.output_tokens, current_max_tokens,
                           query, difficulty, emb)} :
           /\ verdict' = v
           /\ verdicts' = Append(verdicts, v)
           /\ IF ~v.passed /\ may_retry(v, retry_count)
              THEN /\ retry_count' = retry_count + 1
                   /\ current_max_tokens' = retry_budget(current_max_tokens)
                   /\ UNCHANGED <<pc, returned>>
              ELSE /\ returned' = easy_return(result, v, retry_count, difficulty)
                   /\ pc' = "returned"
                   /\ UNCHANGED <<retry_count, current_max_tokens>>
  /\ UNCHANGED <<config, direct, concurrent, query, difficulty, max_tokens, error>>

\* one pass of the medium loop (lines 164-189) and, when it leaves the loop,
\* the local return (192-205, 218-227) or the step to the escalation (208)
MediumAttempt ==
  /\ pc = "medium"
  /\ calls' = Append(calls, Call("local", local_prompt(query, retry_count, local_result),
                                current_max_tokens))
  /\ \E result \in LocalResults(current_max_tokens) :
       /\ local_result' = result
       /\ generated' = result
       /\ \E emb \in EmbeddingOutcomes(embedding_client) :
          \E v \in {verify(result.text, result.output_tokens, current_max_tokens,
                           query, difficulty, emb)} :
           /\ verdict' = v
           /\ verdicts' = Append(verdicts, v)
           /\ IF v.passed
              THEN /\ returned' = medium_return(result, retry_count, difficulty)
                   /\ pc' = "returned"
                   /\ UNCHANGED <<retry_count, current_max_tokens>>
              ELSE IF may_retry(v, retry_count)
              THEN /\ retry_count' = retry_count + 1
                   /\ current_max_tokens' = retry_budget(current_max_tokens)
                   /\ UNCHANGED <<pc, returned>>
              ELSE IF remote_llm # "none"
              THEN /\ pc' = "escalate"
                   /\ UNCHANGED <<retry_count, current_max_tokens, returned>>
              ELSE /\ returned' = degraded_return(result, v, difficulty)
                   /\ pc' = "returned"
                   /\ UNCHANGED <<retry_count, current_max_tokens>>
  /\ UNCHANGED <<config, direct, concurrent, query, difficulty, max_tokens, error>>

\* the escalation: self.remote_llm.generate(query) and the return (209-217)
Escalate ==
  /\ pc = "escalate"
  /\ calls' = Append(calls, Call("remote", query, DEFAULT_MAX_TOKENS))
  /\ \E remote_result \in RemoteResults(remote_llm, DEFAULT_MAX_TOKENS) :
       /\ generated' = remote_result
       /\ returned' = escalated_return(remote_result, verdict, difficulty)
       /\ pc' = "returned"
  /\ UNCHANGED <<config, direct, concurrent, query, difficulty, max_tokens, retry_count,
                 current_max_tokens, local_result, verdict, error, verdicts>>

\* the hard path: the remote call, its verification and the return (233-249)
HardRemote ==
  /\ pc = "hard"
  /\ calls' = Append(calls, Call("remote", query, max_tokens))
  /\ \E remote_result \in RemoteResults(remote_llm, max_tokens) :
       /\ generated' = remote_result
       /\ \E emb \in EmbeddingOutcomes(embedding_client) :
          \E v \in {verify(remote_result.text, remote_result.output_tokens, max_tokens,
                           query, difficulty, emb)} :
           /\ verdict' = v
           /\ verdicts' = Append(verdicts, v)
           /\ returned' = hard_return(remote_result, v, difficulty)
           /\ pc' = "returned"
  /\ UNCHANGED <<config, direct, concurrent, query, difficulty, max_tokens, retry_count,
                 current_max_tokens, local_result, error>>

Next ==
  \/ \E q \in Queries : Route(q)
  \/ GenerateFails
  \/ EasyAttempt
  \/ MediumAttempt
  \/ Escalate
  \/ HardRemote

Spec == Init /\ [][Next]_vars

\* every backend call returns or raises, so a route() call that can take a
\* step takes one
FairSpec == Spec /\ WF_vars(Next)

(***************************************************************************)
(* verify() called on its own, on arguments of every kind: the texts a     *)
(* backend may answer with, list-style and other queries (or none), token  *)
(* counts around the budget, difficulties at the band limits and          *)
(* similarities at the two thresholds.                                     *)
(***************************************************************************)
\* "Python is similar to \n": a dangling answer followed by white space
AnswerTrailingSpace ==
  <<"P","y","t","h","o","n"," ","i","s"," ","s","i","m","i","l","a","r"," ","t","o"," ","\n">>

\* "PYTHON IS SIMILAR TO": a dangling answer in capitals
AnswerUpperDangling ==
  <<"P","Y","T","H","O","N"," ","I","S"," ","S","I","M","I","L","A","R"," ","T","O">>

\* "Python is similar to.": a dangling ending closed by a full stop
AnswerDanglingStop ==
  <<"P","y","t","h","o","n"," ","i","s"," ","s","i","m","i","l","a","r"," ","t","o",".">>

\* "Python or what?"
AnswerQuestion ==
  <<"P","y","t","h","o","n"," ","o","r"," ","w","h","a","t","?">>

\* "Python and Java": no final punctuation and no dangling ending
AnswerNoStop ==
  <<"P","y","t","h","o","n"," ","a","n","d"," ","J","a","v","a">>

\* "Python has no goto": ends in 'to' inside a word
AnswerGoto ==
  <<"P","y","t","h","o","n"," ","h","a","s"," ","n","o"," ","g","o","t","o">>

\* "Languages such as"
AnswerSuchAs ==
  <<"L","a","n","g","u","a","g","e","s"," ","s","u","c","h"," ","a","s">>

\* "I'M NOT SURE."
AnswerNotSureUpper ==
  <<"I","'","M"," ","N","O","T"," ","S","U","R","E",".">>

\* "I am not sure!"
AnswerAmNotSure ==
  <<"I"," ","a","m"," ","n","o","t"," ","s","u","r","e","!">>

\* "Cannot determine that."
AnswerCannot ==
  <<"C","a","n","n","o","t"," ","d","e","t","e","r","m","i","n","e"," ","t","h","a","t",".">>

\* "It is Unclear"
AnswerUnclear ==
  <<"I","t"," ","i","s"," ","U","n","c","l","e","a","r">>

\* "Python Might Be best."
AnswerMightBe ==
  <<"P","y","t","h","o","n"," ","M","i","g","h","t"," ","B","e"," ","b","e","s","t",".">>

\* "Maybe Python.": 'maybe' is none of the phrases
AnswerMaybe ==
  <<"M","a","y","b","e"," ","P","y","t","h","o","n",".">>

\* "": the empty answer
AnswerNone ==
  <<>>

\* "NAME two languages"
QueryNameUpper ==
  <<"N","A","M","E"," ","t","w","o"," ","l","a","n","g","u","a","g","e","s">>

\* "Give Python examples"
QueryGive ==
  <<"G","i","v","e"," ","P","y","t","h","o","n"," ","e","x","a","m","p","l","e","s">>

\* "mention Python"
QueryMention ==
  <<"m","e","n","t","i","o","n"," ","P","y","t","h","o","n">>

\* " list languages": 'list' after a blank
QuerySpaceList ==
  <<" ","l","i","s","t"," ","l","a","n","g","u","a","g","e","s">>

VerifyAnswers ==
  {
   AnswerComplete, AnswerDangling, AnswerUnsure, AnswerUnsureDangling,
   AnswerOffTopic, AnswerTrailingSpace, AnswerUpperDangling,
   AnswerDanglingStop, AnswerQuestion, AnswerNoStop, AnswerGoto,
   AnswerSuchAs, AnswerNotSureUpper, AnswerAmNotSure, AnswerCannot,
   AnswerUnclear, AnswerMightBe, AnswerMaybe, AnswerNone
  }

VerifyQueries ==
  {
   QueryEmpty, QueryWhat, QueryExplain, QueryList, QueryNameUpper,
   QueryGive, QueryMention, QuerySpaceList
  }

\* how far from the budget the token counts of a verify() call are taken
MaxTokenGap == 1

\* the budgets of _max_tokens_for_difficulty that a verify() call is tried with
VerifyBudgets == {128, 512}

\* the difficulties tried, in thousandths: the band limits and their neighbours
VerifyDifficulties == {0, 299, 300, 599, 600}

\* what the relevance check of a verify() call may meet: no client, a failed
\* _embed call, or a similarity next to RELEVANCE_FAIL or RELEVANCE_WARN
VerifyEmbeddings ==
  {[client |-> FALSE, query_ok |-> FALSE, answer_ok |-> FALSE, cosine |-> 0],
   [client |-> TRUE, query_ok |-> FALSE, answer_ok |-> TRUE, cosine |-> 0],
   [client |-> TRUE, query_ok |-> TRUE, answer_ok |-> FALSE, cosine |-> 0],
   [client |-> TRUE, query_ok |-> FALSE, answer_ok |-> FALSE, cosine |-> 0]}
  \cup {[client |-> TRUE, query_ok |-> TRUE, answer_ok |-> TRUE, cosine |-> s] :
          s \in {RELEVANCE_FAIL - 1, RELEVANCE_FAIL, RELEVANCE_WARN - 1, RELEVANCE_WARN}}

\* the verify() calls tried
VerifyCalls ==
  {[answer |-> a, output_tokens |-> m + g, max_tokens |-> m, query |-> q,
    difficulty |-> d, emb |-> e] :
     a \in VerifyAnswers, m \in VerifyBudgets, g \in (0 - MaxTokenGap)..MaxTokenGap,
     q \in VerifyQueries, d \in VerifyDifficulties, e \in VerifyEmbeddings}

\* the variables of a route() call
routing == <<pc, query, difficulty, max_tokens, retry_count, current_max_tokens,
             local_result, verdict, returned, error, calls, verdicts, generated>>

\* a ResponseVerifier and the arguments of one verify() call; no route() call
VerifyInit ==
  /\ verify_call \in VerifyCalls
  /\ verify_result = None
  /\ estimate_call = None
  /\ estimate_results = None
  /\ remote_llm = "none"
  /\ embedding_client = verify_call.emb.client
  /\ pc = "idle"
  /\ query = <<>>
  /\ difficulty = 0
  /\ max_tokens = 0
  /\ retry_count = 0
  /\ current_max_tokens = 0
  /\ local_result = None
  /\ verdict = None
  /\ returned = None
  /\ error = "none"
  /\ calls = <<>>
  /\ verdicts = <<>>
  /\ generated = None
  /\ parked = None
  /\ backends = None

\* verifier.verify(answer, output_tokens, max_tokens, query, difficulty)
Verify ==
  /\ verify_result = None
  /\ verify_result' = verify(verify_call.answer, verify_call.output_tokens,
                             verify_call.max_tokens, verify_call.query,
                             verify_call.difficulty, verify_call.emb)
  /\ UNCHANGED <<config, routing, concurrent, verify_call, estimate_call, estimate_results>>

VerifyNext == Verify

VerifySpec == VerifyInit /\ [][VerifyNext]_vars

(***************************************************************************)
(* estimate() called on its own: on the labelled sample queries of         *)
(* scripts/test_difficulty.py, on empty, blank, short and long queries, on *)
(* each of them with white space put around it, and on each of them with a *)
(* HARD keyword appended to its end.                                       *)
(***************************************************************************)

\* "Who invented the computer?"
QueryWho ==
  <<"W","h","o"," ","i","n","v","e","n","t","e","d"," ","t","h","e"," ","c","o","m","p","u","t","e","r","?">>

\* "Define machine learning"
QueryDefine ==
  <<"D","e","f","i","n","e"," ","m","a","c","h","i","n","e"," ","l","e","a","r","n","i","n","g">>

\* "When was Python created?"
QueryWhen ==
  <<"W","h","e","n"," ","w","a","s"," ","P","y","t","h","o","n"," ","c","r","e","a","t","e","d","?">>

\* "Describe how neural networks work"
QueryDescribe ==
  <<"D","e","s","c","r","i","b","e"," ","h","o","w"," ","n","e","u","r","a","l"," ","n","e","t","w","o","r","k","s"," ","w","o","r","k">>

\* "Summarize the main concepts in machine learning"
QuerySummarize ==
  <<"S","u","m","m","a","r","i","z","e"," ","t","h","e"," ","m","a","i","n"," ","c","o","n","c","e","p","t","s"," ","i","n"," ","m","a","c","h","i","n","e"," ","l","e","a","r","n","i","n","g">>

\* "Compare supervised and unsupervised learning"
QueryCompare ==
  <<"C","o","m","p","a","r","e"," ","s","u","p","e","r","v","i","s","e","d"," ","a","n","d"," ","u","n","s","u","p","e","r","v","i","s","e","d"," ","l","e","a","r","n","i","n","g">>

\* "Why does gradient descent converge and how can we prove it mathematically?"
QueryWhy ==
  <<"W","h","y"," ","d","o","e","s"," ","g","r","a","d","i","e","n","t"," ","d","e","s","c","e","n","t"," ","c","o","n","v","e","r","g","e"," ","a","n","d"," ","h","o","w"," ","c","a","n"," ","w","e"," ","p","r","o","v","e"," ","i","t"," ","m","a","t","h","e","m","a","t","i","c","a","l","l","y","?">>

\* "Analyze the implications of quantum computing on cryptography"
QueryAnalyze ==
  <<"A","n","a","l","y","z","e"," ","t","h","e"," ","i","m","p","l","i","c","a","t","i","o","n","s"," ","o","f"," ","q","u","a","n","t","u","m"," ","c","o","m","p","u","t","i","n","g"," ","o","n"," ","c","r","y","p","t","o","g","r","a","p","h","y">>

\* "How can we justify the use of regularization in preventing overfitting?"
QueryJustify ==
  <<"H","o","w"," ","c","a","n"," ","w","e"," ","j","u","s","t","i","f","y"," ","t","h","e"," ","u","s","e"," ","o","f"," ","r","e","g","u","l","a","r","i","z","a","t","i","o","n"," ","i","n"," ","p","r","e","v","e","n","t","i","n","g"," ","o","v","e","r","f","i","t","t","i","n","g","?">>

\* "What are the theoretical foundations and practical implications of transformer architecture in modern NLP?"
QueryFoundations ==
  <<"W","h","a","t"," ","a","r","e"," ","t","h","e"," ","t","h","e","o","r","e","t","i","c","a","l"," ","f","o","u","n","d","a","t","i","o","n","s"," ","a","n","d"," ","p","r","a","c","t","i","c","a","l"," ","i","m","p","l","i","c","a","t","i","o","n","s"," ","o","f"," ","t","r","a","n","s","f","o","r","m","e","r"," ","a","r","c","h","i","t","e","c","t","u","r","e"," ","i","n"," ","m","o","d","e","r","n"," ","N","L","P","?">>

\* "   ": white space only
QueryBlank ==
  <<" "," "," ">>

\* "Why is it. Or if?": five words, every structure bonus
QueryFiveWords ==
  <<"W","h","y"," ","i","s"," ","i","t","."," ","O","r"," ","i","f","?">>

\* "Why is it. Or if? ": the same, ending in a blank
QueryFiveWordsSpace ==
  <<"W","h","y"," ","i","s"," ","i","t","."," ","O","r"," ","i","f","?"," ">>

\* "Why a b c d e f g h i j k l m n o p q r s t u v w x y. Or if so it?": thirty words
QueryThirtyWords ==
  <<"W","h","y"," ","a"," ","b"," ","c"," ","d"," ","e"," ","f"," ","g"," ","h"," ","i"," ","j"," ","k"," ","l"," ","m"," ","n"," ","o"," ","p"," ","q"," ","r"," ","s"," ","t"," ","u"," ","v"," ","w"," ","x"," ","y","."," ","O","r"," ","i","f"," ","s","o"," ","i","t","?">>

\* "Pros and cons"
QueryProsCons ==
  <<"P","r","o","s"," ","a","n","d"," ","c","o","n","s">>

\* the queries labelled "Easy (should score < 0.3)"
EasySamples == {QueryWhat, QueryList, QueryWho, QueryDefine, QueryWhen}

\* the queries labelled "Medium (should score 0.3-0.6)"
MediumSamples ==
  {QueryExplain, QueryDescribe, QuerySummarize, QueryCompare, QueryAdvantages}

\* the queries labelled "Hard (should score > 0.6)"
HardSamples == {QueryWhy, QueryAnalyze, QueryProve, QueryJustify, QueryFoundations}

\* the queries estimate() is tried on
EstimateQueries ==
  EasySamples \cup MediumSamples \cup HardSamples
    \cup {QueryEmpty, QueryBlank, QueryShow, QueryNameCompare, QueryBoundary,
          QueryFiveWords, QueryFiveWordsSpace, QueryThirtyWords, QueryProsCons}

\* the white space put before and after a query
Paddings ==
  {[leading |-> <<" ">>, trailing |-> <<>>],
   [leading |-> <<>>, trailing |-> <<" ", " ">>],
   [leading |-> <<"\n", "\t">>, trailing |-> <<" ", "\r", "\n">>]}

\* the HARD keywords appended to a query
AppendedKeywords ==
  {k \in HARD_KEYWORDS : Len(k) \in {3, 5, 12}}

\* what stands between a query and the keyword appended to it
Separators == {<<>>, <<" ">>}

\* how many times estimate() is called on the same query
MaxEstimateCalls == 2

\* the experiments tried: a query, the padding and the appended keyword
EstimateCalls ==
  {[query |-> q, leading |-> p.leading, trailing |-> p.trailing,
    keyword |-> k, separator |-> s] :
     q \in EstimateQueries, p \in Paddings, k \in AppendedKeywords, s \in Separators}

\* the query with white space around it
Padded(call) == call.leading \o call.query \o call.trailing

\* the query with the keyword appended
Appended(call) == call.query \o call.separator \o call.keyword

\* a QueryDifficultyEstimator (it has no fields) and one experiment; no
\* route() call and no verify() call
EstimateInit ==
  /\ estimate_call \in EstimateCalls
  /\ estimate_results = [query |-> <<>>, padded |-> <<>>, appended |-> <<>>]
  /\ verify_call = None
  /\ verify_result = None
  /\ remote_llm = "none"
  /\ embedding_client = FALSE
  /\ pc = "idle"
  /\ query = <<>>
  /\ difficulty = 0
  /\ max_tokens = 0
  /\ retry_count = 0
  /\ current_max_tokens = 0
  /\ local_result = None
  /\ verdict = None
  /\ returned = None
  /\ error = "none"
  /\ calls = <<>>
  /\ verdicts = <<>>
  /\ generated = None
  /\ parked = None
  /\ backends = None

\* estimator.estimate(query), once more
EstimateQuery ==
  /\ estimate_call # None
  /\ Len(estimate_results.query) < MaxEstimateCalls
  /\ estimate_results' =
       [estimate_results EXCEPT !.query = Append(@, estimate(estimate_call.query))]
  /\ UNCHANGED <<config, routing, concurrent, verify_call, verify_result, estimate_call>>

\* estimator.estimate(leading + query + trailing)
EstimatePadded ==
  /\ estimate_call # None
  /\ estimate_results.padded = <<>>
  /\ estimate_results' =
       [estimate_results EXCEPT !.padded = <<estimate(Padded(estimate_call))>>]
  /\ UNCHANGED <<config, routing, concurrent, verify_call, verify_result, estimate_call>>

\* estimator.estimate(query + separator + keyword)
EstimateAppended ==
  /\ estimate_call # None
  /\ estimate_results.appended = <<>>
  /\ estimate_results' =
       [estimate_results EXCEPT !.appended = <<estimate(Appended(estimate_call))>>]
  /\ UNCHANGED <<config, routing, concurrent, verify_call, verify_result, estimate_call>>

EstimateNext ==
  \/ EstimateQuery
  \/ EstimatePadded
  \/ EstimateAppended

EstimateSpec == EstimateInit /\ [][EstimateNext]_vars

(***************************************************************************)
(* Two route() invocations on one router.  The variables of a route() call *)
(* are those of the invocation that is running; the locals of the other    *)
(* one are parked, and a switch of threads exchanges the two.  The router  *)
(* (remote_llm, the verifier, max_retries) and the backends are shared.    *)
(* The backends are stateless: what generate returns depends on its        *)
(* arguments only.                                                         *)
(***************************************************************************)

\* the queries of the two invocations: an easy, a medium and a hard one
ConcurrentQueries == {QueryWhat, QueryExplain, QueryProve}

\* the budgets from which a local backend answers in full
EnoughTokens == {1, 200, 500, 1000}

\* the stateless backends tried: the local one answers with local_text when
\* the budget is at least enough and stops in mid-sentence at the budget
\* otherwise; the remote one answers with remote_text
StatelessBackends ==
  [enough : EnoughTokens,
   local_text : {AnswerComplete, AnswerUnsure},
   remote_text : {AnswerComplete, AnswerUnsure}]

\* backend.generate(prompt, max_tokens) of a stateless backend
Generate(call) ==
  IF call.backend = "local"
  THEN IF call.max_tokens >= backends.enough
       THEN [text |-> backends.local_text, input_tokens |-> 1, output_tokens |-> 1,
             model |-> "local-gguf", device |-> "metal/cpu"]
       ELSE [text |-> AnswerDangling, input_tokens |-> 1,
             output_tokens |-> call.max_tokens,
             model |-> "local-gguf", device |-> "metal/cpu"]
  ELSE IF remote_llm = "metered"
       THEN [text |-> backends.remote_text, input_tokens |-> 1, output_tokens |-> 1,
             model |-> "gpt-4o", device |-> "openai_api",
             cost_usd |-> Round6(openai_cost(1, 1))]
       ELSE [text |-> backends.remote_text, input_tokens |-> 1, output_tokens |-> 1,
             model |-> "mock-remote-llm", device |-> "api"]

\* the locals (and the history) of the invocation that is running
Running ==
  [pc |-> pc, query |-> query, difficulty |-> difficulty, max_tokens |-> max_tokens,
   retry_count |-> retry_count, current_max_tokens |-> current_max_tokens,
   local_result |-> local_result, verdict |-> verdict, returned |-> returned,
   error |-> error, calls |-> calls, verdicts |-> verdicts, generated |-> generated]

\* a retry counter kept in a field of the router: the invocation that resumes
\* finds the value the other one left
resumed_retry_count_shared(own, other) == other

\* retry_count = 0 (lines 113, 161) makes the counter a local of the call:
\* the invocation that resumes finds its own value
resumed_retry_count(own, other) == own

\* a router with stateless backends and two invocations that have not begun
ConcurrentInit ==
  /\ backends \in StatelessBackends
  /\ remote_llm \in {"none", "unmetered", "metered"}
  /\ embedding_client = FALSE
  /\ pc = "idle"
  /\ query = <<>>
  /\ difficulty = 0
  /\ max_tokens = 0
  /\ retry_count = 0
  /\ current_max_tokens = 0
  /\ local_result = None
  /\ verdict = None
  /\ returned = None
  /\ error = "none"
  /\ calls = <<>>
  /\ verdicts = <<>>
  /\ generated = None
  /\ parked = Running
  /\ verify_call = None
  /\ verify_result = None
  /\ estimate_call = None
  /\ estimate_results = None

\* the call the running invocation is about to make
NextCall ==
  CASE pc \in {"easy", "medium"} ->
         Call("local", local_prompt(query, retry_count, local_result), current_max_tokens)
    [] pc = "escalate" -> Call("remote", query, DEFAULT_MAX_TOKENS)
    [] pc = "hard" -> Call("remote", query, max_tokens)

\* the running invocation makes its next backend call, which the stateless
\* backend answers, and goes on to its next call or to its return
ConcurrentStep ==
  /\ pc \in {"easy", "medium", "escalate", "hard"}
  /\ generated' = Generate(NextCall)
  /\ \/ EasyAttempt
     \/ MediumAttempt
     \/ Escalate
     \/ HardRemote

\* the thread of the running invocation is suspended and the other resumes
Switch ==
  /\ parked' = Running
  /\ pc' = parked.pc
  /\ query' = parked.query
  /\ difficulty' = parked.difficulty
  /\ max_tokens' = parked.max_tokens
  /\ retry_count' = resumed_retry_count(parked.retry_count, retry_count)
  /\ current_max_tokens' = parked.current_max_tokens
  /\ local_result' = parked.local_result
  /\ verdict' = parked.verdict
  /\ returned' = parked.returned
  /\ error' = parked.error
  /\ calls' = parked.calls
  /\ verdicts' = parked.verdicts
  /\ generated' = parked.generated
  /\ UNCHANGED <<config, direct, backends>>

ConcurrentNext ==
  \/ \E q \in ConcurrentQueries : Route(q)
  \/ ConcurrentStep
  \/ Switch

ConcurrentSpec == ConcurrentInit /\ [][ConcurrentNext]_vars

\* the outcome of the relevance check of a verifier without a client
NoEmbeddingClient ==
  [client |-> FALSE, query_ok |-> FALSE, answer_ok |-> FALSE, cosine |-> 0]

\* route() on its own with the stateless backends: the local loop of lines
\* 116-141 and 164-189, from one attempt on
RECURSIVE alone_local(_, _, _, _, _, _)
alone_local(q, d, count, budget, made, previous) ==
  LET call == Call("local", local_prompt(q, count, previous), budget)
      result == Generate(call)
      v == verify(result.text, result.output_tokens, budget, q, d, NoEmbeddingClient)
  IN  IF ~v.passed /\ may_retry(v, count)
      THEN alone_local(q, d, count + 1, retry_budget(budget), Append(made, call), result)
      ELSE [calls |-> Append(made, call), result |-> result, verdict |-> v,
            retry_count |-> count]

\* what route(q) does on its own with the stateless backends: the calls it
\* makes, the result it returns and the error it raises
route_alone(q) ==
  LET d == estimate(q)
      budget == max_tokens_for_difficulty(d)
      entry == route_entry(d, remote_llm)
      l == alone_local(q, d, 0, budget, <<>>, None)
      direct_call == Call("remote", q, budget)
      escalation == Call("remote", q, DEFAULT_MAX_TOKENS)
      r == Generate(direct_call)
      v == verify(r.text, r.output_tokens, budget, q, d, NoEmbeddingClient)
  IN  CASE entry = "raised" ->
             [calls |-> <<>>, returned |-> None, error |-> "ValueError"]
        [] entry = "hard" ->
             [calls |-> <<direct_call>>, returned |-> hard_return(r, v, d),
              error |-> "none"]
        [] entry = "easy" ->
             [calls |-> l.calls,
              returned |-> easy_return(l.result, l.verdict, l.retry_count, d),
              error |-> "none"]
        [] entry = "medium" ->
             IF l.verdict.passed
             THEN [calls |-> l.calls,
                   returned |-> medium_return(l.result, l.retry_count, d),
                   error |-> "none"]
             ELSE IF remote_llm # "none"
             THEN [calls |-> Append(l.calls, escalation),
                   returned |-> escalated_return(Generate(escalation), l.verdict, d),
                   error |-> "none"]
             ELSE [calls |-> l.calls,
                   returned |-> degraded_return(l.result, l.verdict, d),
                   error |-> "none"]

(***************************************************************************)
(* What the claims speak of.                                               *)
(***************************************************************************)
CallsTo(backend) == Cardinality({i \in DOMAIN calls : calls[i].backend = backend})

LocalCalls == CallsTo("local")

RemoteCalls == CallsTo("remote")

Started == pc # "idle"

Returned == pc = "returned"

Done == pc \in {"returned", "raised"}

Easy == Started /\ difficulty < 300

Medium == Started /\ difficulty >= 300 /\ difficulty < 600

Hard == Started /\ difficulty >= 600

\* the verdict that ended the local loop failed: the first one without
\* truncation, or the one after the retry
FinalLocalVerdictFailed ==
  \/ Len(verdicts) = 1 /\ ~verdicts[1].passed /\ ~verdicts[1].truncated
  \/ Len(verdicts) = 2 /\ ~verdicts[2].passed

\* the returned result is what the last backend call produced, key by key
ReturnsLastGenerated ==
  \A k \in DOMAIN generated : k \in DOMAIN returned /\ returned[k] = generated[k]

(***************************************************************************)
(* C1..C10: the routing bands, the retry bound, the decision tags and the  *)
(* cost fields of LLMRouter.route.                                         *)
(***************************************************************************)

\* C1: for a query of difficulty < 0.3, route() never calls the remote backend
\* and never reaches a remote call site, with or without a remote backend and
\* whatever the verdicts are.
C1_EasyNeverRemote ==
  Easy => RemoteCalls = 0 /\ pc \notin {"escalate", "hard"}

\* C1 witness: an easy query, a remote backend configured, a retry made and a
\* final verdict that failed, and the local result was returned.
C1_Witness ==
  /\ Returned /\ Easy /\ remote_llm # "none"
  /\ Len(verdicts) = 2 /\ ~verdicts[2].passed

\* C2: for a query of difficulty >= 0.6 with a remote backend, route() makes no
\* local call and exactly one call, to the remote backend with budget 512, and
\* what it returns is that call's result tagged 'remote', whatever the verdict.
C2_HardOnlyRemote ==
  (Hard /\ remote_llm # "none") =>
     /\ LocalCalls = 0
     /\ pc \in {"hard", "returned", "raised"}
     /\ pc = "hard" => calls = <<>>
     /\ Done => calls = <<Call("remote", query, 512)>>
     /\ Returned => /\ returned.routing_decision = "remote"
                    /\ ReturnsLastGenerated
                    /\ Len(verdicts) = 1

\* C2 witness: a hard query answered by the remote backend whose answer failed
\* verification, returned all the same.
C2_Witness ==
  Returned /\ Hard /\ ~verdicts[1].passed /\ returned.routing_decision = "remote"

\* C3: for a query of difficulty >= 0.6 with no remote backend, route() raises
\* the configuration error, returns nothing and calls no backend.
C3_HardNoRemoteRaises ==
  (Hard /\ remote_llm = "none") =>
     pc = "raised" /\ error = "ValueError" /\ returned = None /\ calls = <<>>

\* C3 witness: the configuration error was raised for a hard query.
C3_Witness ==
  pc = "raised" /\ error = "ValueError" /\ difficulty >= 600 /\ remote_llm = "none"

\* C4: one route() call invokes the local backend at most twice.
C4_AtMostTwoLocalCalls == LocalCalls <= 2

\* C4 witness: the local backend was called twice and the second answer was
\* truncated again; the call is over or about to escalate.
C4_Witness ==
  /\ LocalCalls = 2 /\ Len(verdicts) = 2 /\ verdicts[2].truncated
  /\ pc \in {"returned", "escalate"}

\* C5: every route() call ends, returned or raised, and at no point has it made
\* more than three backend calls, two local ones and one remote one.
C5_TerminatesWithinThreeCalls ==
  /\ [](Len(calls) <= 3 /\ LocalCalls <= 2 /\ RemoteCalls <= 1)
  /\ (Started ~> Done)

\* C5 witness: a call that ended after three backend calls.
C5_Witness == Done /\ Len(calls) = 3 /\ LocalCalls = 2 /\ RemoteCalls = 1

\* C6: for a query of difficulty in [0.3, 0.6) with a remote backend, a remote
\* call is never followed by another call, and when route() is over the remote
\* backend was called (once) exactly if the final local verdict failed; a
\* result is tagged 'escalated' exactly if it was.
C6_EscalatesIffFinalVerdictFailed ==
  (Medium /\ remote_llm # "none") =>
     /\ RemoteCalls <= 1
     /\ \A i \in DOMAIN calls : calls[i].backend = "remote" => i = Len(calls)
     /\ Done => (RemoteCalls = 1 <=> FinalLocalVerdictFailed)
     /\ Returned => (RemoteCalls = 1 <=> returned.routing_decision = "escalated")

\* C6 witness: a medium query whose retry failed too and which was escalated.
C6_Witness ==
  /\ Returned /\ Medium /\ returned.routing_decision = "escalated"
  /\ Len(calls) = 3 /\ calls[3].backend = "remote"

\* C7: a returned result carries a routing_decision, one of the four tags, and
\* the tag fits the band of the difficulty.
C7_DecisionFitsBand ==
  Returned =>
     /\ "routing_decision" \in DOMAIN returned
     /\ returned.routing_decision \in {"local", "repaired", "escalated", "remote"}
     /\ returned.difficulty = difficulty
     /\ returned.routing_decision = "remote" => difficulty >= 600
     /\ returned.routing_decision = "escalated" => (difficulty >= 300 /\ difficulty < 600)
     /\ returned.routing_decision \in {"local", "repaired"} => difficulty < 600

\* C7 witness: a medium query repaired by the retry.
C7_Witness ==
  Returned /\ returned.routing_decision = "repaired" /\ difficulty >= 300

\* C8 (as claimed): every returned result has a cost_usd, which is 0 when the
\* backend that produced the result does not meter its calls.
C8_CostUsdAlwaysPresent ==
  Returned =>
     /\ "cost_usd" \in DOMAIN returned
     /\ "cost_usd" \notin DOMAIN generated => returned.cost_usd = 0

\* C9 (as claimed): the routing_decision of a returned result is 'local',
\* 'escalated' or 'remote'.
C9_ThreeDecisions ==
  Returned => returned.routing_decision \in {"local", "escalated", "remote"}

\* C10 (as claimed): whenever the local backend's result is the one returned,
\* cost_usd is 0 and cost_saved_usd is 5 micro-USD per input token plus 15 per
\* output token of that result.
C10_LocalResultSavesEstimate ==
  (Returned /\ returned.routing_decision \in {"local", "repaired"}) =>
     /\ returned.cost_usd = 0
     /\ returned.cost_saved_usd = 5 * returned.input_tokens + 15 * returned.output_tokens

\* C10 (amended): a returned local result has cost_usd 0; its cost_saved_usd is
\* 5 micro-USD per input token plus 15 per output token of that result, except
\* on the medium path after a failed final verdict (no remote backend), where
\* it is 0.
C10_LocalResultSavesEstimateUnlessDegraded ==
  (Returned /\ returned.routing_decision \in {"local", "repaired"}) =>
     /\ ReturnsLastGenerated
     /\ calls[Len(calls)].backend = "local"
     /\ returned.cost_usd = 0
     /\ returned.cost_saved_usd =
          IF Medium /\ ~verdicts[Len(verdicts)].passed
          THEN 0
          ELSE 5 * returned.input_tokens + 15 * returned.output_tokens

\* C10 witness: an easy query repaired by the retry, whose saving is counted on
\* the tokens of the second answer.
C10_Witness ==
  /\ Returned /\ Easy /\ returned.routing_decision = "repaired"
  /\ returned.output_tokens = 256
  /\ returned.cost_saved_usd = 5 * returned.input_tokens + 15 * 256

(***************************************************************************)
(* C11..C16: zero savings on remote results, the degraded return, backend  *)
(* failures, and the truncation retry of LLMRouter.route.                  *)
(***************************************************************************)

\* C11: every returned result has a cost_saved_usd; the remote backend was
\* called exactly for the results tagged 'escalated' or 'remote', and for
\* those cost_saved_usd is 0.
C11_RemoteResultSavesNothing ==
  Returned =>
     /\ "cost_saved_usd" \in DOMAIN returned
     /\ RemoteCalls > 0 <=> returned.routing_decision \in {"escalated", "remote"}
     /\ RemoteCalls > 0 => returned.cost_saved_usd = 0

\* C11 witness: a hard query answered by a metered remote backend with the
\* whole budget of 512 tokens, billed and with no saving.
C11_Witness ==
  /\ Returned /\ returned.routing_decision = "remote" /\ remote_llm = "metered"
  /\ returned.output_tokens = 512 /\ returned.cost_usd > 0
  /\ returned.cost_saved_usd = 0

\* C12: for a query of difficulty in [0.3, 0.6) with no remote backend, once
\* the final local verdict has failed route() has returned, without an error,
\* the last local result tagged 'local', with verification 'failed: ' followed
\* by the verdict's reasons, cost_usd 0 and cost_saved_usd 0.
C12_DegradedLocalReturn ==
  (Medium /\ remote_llm = "none" /\ verdicts # <<>> /\ FinalLocalVerdictFailed) =>
     /\ pc = "returned" /\ error = "none"
     /\ RemoteCalls = 0
     /\ generated = local_result /\ ReturnsLastGenerated
     /\ returned.routing_decision = "local"
     /\ verdicts[Len(verdicts)].reasons # <<>>
     /\ returned.verification # "passed"
     /\ returned.verification = "failed: " \o Join(verdicts[Len(verdicts)].reasons)
     /\ returned.cost_usd = 0
     /\ returned.cost_saved_usd = 0

\* C12 witness: no remote backend, a medium query, the retried answer is
\* uncertain and names no word of the query, and the result says so.
C12_Witness ==
  /\ Returned /\ Medium /\ remote_llm = "none" /\ LocalCalls = 2
  /\ returned.verification = "failed: uncertainty, low_relevance (basic coverage failed)"
  /\ returned.text = AnswerUnsure

\* C13: a backend call that fails ends route(): the error is raised, nothing
\* is returned, every call but the failed one produced its result, and no step
\* follows the raise, so the failed call is neither repeated nor replaced.
C13_BackendFailurePropagates ==
  /\ [](/\ error = "BackendError" => (pc = "raised" /\ returned = None)
        /\ Len(calls) = Len(verdicts)
                          + (IF Returned /\ returned.routing_decision = "escalated"
                             THEN 1 ELSE 0)
                          + (IF error = "BackendError" THEN 1 ELSE 0))
  /\ [][pc = "raised" => (calls' = calls /\ pc' = "raised")]_vars

\* C13 witness: a medium query with a remote backend configured whose second
\* local call failed: route() raised after two local calls, no remote one.
C13_Witness ==
  /\ pc = "raised" /\ error = "BackendError" /\ Medium /\ remote_llm # "none"
  /\ LocalCalls = 2 /\ RemoteCalls = 0 /\ Len(verdicts) = 1

\* C14: on the easy and medium paths, once the first verdict flags truncation
\* the local backend is called again (route() is at the call, or has made it)
\* with twice the first budget, 128 -> 256 or 256 -> 512, and the second
\* answer is truncated only if it used the doubled budget.
C14_TruncatedRetriesWithDoubleBudget ==
  (Started /\ difficulty < 600 /\ verdicts # <<>> /\ verdicts[1].truncated) =>
     /\ calls[1] = Call("local", query, IF difficulty < 300 THEN 128 ELSE 256)
     /\ retry_count = 1
     /\ Len(calls) = 1 =>
          (pc \in {"easy", "medium"} /\ current_max_tokens = 2 * calls[1].max_tokens)
     /\ Len(calls) >= 2 => calls[2] = Call("local", query, 2 * calls[1].max_tokens)
     /\ Len(verdicts) = 2 =>
          (verdicts[2].truncated <=>
             /\ local_result.output_tokens >= 2 * calls[1].max_tokens
             /\ local_result.text \in {AnswerDangling, AnswerUnsureDangling})

\* C14 witness: a medium query whose second answer dangles too but stops at
\* 256 tokens, the first budget, under the budget of 512: not truncated.
C14_Witness ==
  /\ Medium /\ Len(verdicts) = 2 /\ verdicts[1].truncated
  /\ calls[2].max_tokens = 512
  /\ local_result.output_tokens = 256 /\ local_result.text = AnswerDangling
  /\ ~verdicts[2].truncated

C16_NoRetryAfterUncertainty ==
  /\ retry_count > 0 => (verdicts[1].truncated /\ ~verdicts[1].uncertainty)
  /\ (difficulty < 600 /\ verdicts # <<>> /\ verdicts[1].uncertainty) =>
        (retry_count = 0 /\ LocalCalls <= 1)

\* C16 (amended): a retry is made only after a first verdict that failed and
\* flags truncation, with or without uncertainty.  After a first verdict
\* without truncation there is no second local call; after one that flags
\* truncation and uncertainty there is a retry.
C16_RetryOnlyAfterTruncation ==
  /\ retry_count > 0 =>
        (verdicts # <<>> /\ verdicts[1].truncated /\ ~verdicts[1].passed)
  /\ (verdicts # <<>> /\ ~verdicts[1].truncated) =>
        (retry_count = 0 /\ LocalCalls <= 1)
  /\ (difficulty < 600 /\ verdicts # <<>>
        /\ verdicts[1].truncated /\ verdicts[1].uncertainty) => retry_count = 1

\* C16 witness: the first answer is uncertain and truncated, and the local
\* backend was called a second time.
C16_Witness ==
  /\ verdicts # <<>> /\ verdicts[1].truncated /\ verdicts[1].uncertainty
  /\ retry_count = 1 /\ LocalCalls = 2 /\ Len(verdicts) = 2

(***************************************************************************)
(* C17..C20: the flags and the verdict of ResponseVerifier.verify.         *)
(***************************************************************************)

\* the verify() call has returned
Verified == verify_result # None

\* the answers tried that stop in mid-sentence: trimmed and lower-cased they
\* end in none of . ! ? and in a blank followed by to / such as
DanglingAnswers ==
  {AnswerDangling, AnswerUnsureDangling, AnswerTrailingSpace,
   AnswerUpperDangling, AnswerSuchAs}

\* the queries tried that start, in any case, with list, name, give or mention
ListStyleQueries == {QueryList, QueryNameUpper, QueryGive, QueryMention}

\* the answers tried that contain, in any case, one of the uncertainty phrases
UncertainAnswers ==
  {AnswerUnsure, AnswerUnsureDangling, AnswerNotSureUpper, AnswerAmNotSure,
   AnswerCannot, AnswerUnclear, AnswerMightBe}

\* the relevance check of the call computed a similarity
SimilarityComputed ==
  verify_call.emb.client /\ verify_call.emb.query_ok /\ verify_call.emb.answer_ok

C19_TruncatedIffBudgetUsedAndDangling ==
  Verified =>
     /\ verify_result.truncated <=>
          /\ verify_call.output_tokens >= verify_call.max_tokens
          /\ verify_call.answer \in DanglingAnswers
          /\ verify_call.query \notin ListStyleQueries
     /\ verify_result.truncated <=>
          (\E i \in DOMAIN verify_result.reasons : verify_result.reasons[i] = "truncated")
     /\ verify_call.query \in ListStyleQueries =>
          /\ ~verify_result.truncated
          /\ \A i \in DOMAIN verify_result.reasons : verify_result.reasons[i] # "truncated"

\* C19 witness: a dangling answer with white space behind it that used the
\* whole budget, for a query that starts with NAME in capitals: not truncated,
\* and it passes.
C19_Witness ==
  /\ Verified /\ verify_call.answer = AnswerTrailingSpace
  /\ verify_call.output_tokens = verify_call.max_tokens
  /\ verify_call.query = QueryNameUpper
  /\ ~verify_result.truncated /\ verify_result.passed

\* C20: for an answer that contains an uncertainty phrase, in any case,
\* verify() flags uncertainty, records it and fails, whatever the token
\* counts, the query (list-style or none) and the difficulty.
C20_UncertainAnswerFails ==
  (Verified /\ verify_call.answer \in UncertainAnswers) =>
     /\ verify_result.uncertainty
     /\ ~verify_result.passed
     /\ \E i \in DOMAIN verify_result.reasons : verify_result.reasons[i] = "uncertainty"

\* C20 witness: "I'M NOT SURE." under the budget, for a list-style query of
\* difficulty 0: uncertainty is the only reason and the verdict fails.
C20_Witness ==
  /\ Verified /\ verify_call.answer = AnswerNotSureUpper
  /\ verify_call.output_tokens < verify_call.max_tokens
  /\ verify_call.query = QueryList /\ verify_call.difficulty = 0
  /\ verify_result.reasons = <<"uncertainty">> /\ ~verify_result.passed

(***************************************************************************)
(* C21..C30: the verifier without embeddings, the first budget, the        *)
(* estimator's range, floors and sample queries, concurrent invocations,   *)
(* the prompts, the escalated result and list-style queries.               *)
(***************************************************************************)

\* C28: every backend call of route(), the first local attempt, the local
\* retry, the escalation call and the direct remote call, is given the
\* caller's query as its prompt, character for character; the retry sends
\* neither the partial answer nor the continuation prompt built from it.
C28_EveryCallSendsTheQuery ==
  \A i \in DOMAIN calls :
     /\ calls[i].prompt = query
     /\ i > 1 =>
          /\ calls[i].prompt # local_result.text
          /\ calls[i].prompt # build_continuation_prompt(query, local_result.text)

\* C28 witness: a first local attempt, a retry after a truncated partial
\* answer and an escalation call, all three made with the query.
C28_Witness ==
  /\ Len(calls) = 3 /\ LocalCalls = 2 /\ RemoteCalls = 1
  /\ verdicts[1].truncated /\ query = QueryExplain
  /\ \A i \in 1..3 : calls[i].prompt = QueryExplain

\* C22: the first backend call of a route() invocation is made with the
\* budget of the difficulty's band: 128 below 0.3, 256 from 0.3 up to but not
\* including 0.6, 512 from 0.6 on; a difficulty of exactly 0.3 gets 256 and
\* one of exactly 0.6 gets 512.
C22_FirstCallUsesBandBudget ==
  calls # <<>> =>
     /\ calls[1].max_tokens =
          IF difficulty < 300 THEN 128 ELSE IF difficulty < 600 THEN 256 ELSE 512
     /\ calls[1].backend = IF difficulty < 600 THEN "local" ELSE "remote"
     /\ difficulty = 300 => calls[1].max_tokens = 256
     /\ difficulty = 600 => calls[1].max_tokens = 512

\* C22 witness: a query that scores exactly 0.3, first sent to the local
\* backend with 256 tokens.
C22_Witness ==
  /\ query = QueryBoundary /\ difficulty = 300
  /\ calls # <<>> /\ calls[1] = Call("local", QueryBoundary, 256)

\* C29: the result route() returns is the result of the last backend call it
\* made.  On an escalation that is the remote result: verify() ran once per
\* local call and never on the remote answer, the local result is not what
\* is returned, and the verification field is 'failed: ' followed by the
\* reasons of the last local verdict, which failed; it is never 'passed'.
C29_EscalationReturnsUnverifiedRemote ==
  Returned =>
     /\ ReturnsLastGenerated
     /\ returned.routing_decision = "escalated" =>
          /\ calls[Len(calls)].backend = "remote"
          /\ Len(verdicts) = LocalCalls /\ Len(calls) = LocalCalls + 1
          /\ verdict = verdicts[Len(verdicts)] /\ ~verdict.passed
          /\ returned.model # local_result.model
          /\ returned.verification = "failed: " \o Join(verdict.reasons)
          /\ returned.verification # "passed"

\* C29 witness: an escalation after two truncated local answers; the remote
\* answer is an admission of uncertainty, which verify() would fail for
\* another reason than the one the result reports.
C29_Witness ==
  /\ Returned /\ returned.routing_decision = "escalated"
  /\ Len(verdicts) = 2 /\ verdicts[2].truncated /\ ~verdicts[2].uncertainty
  /\ returned.text = AnswerUnsure /\ local_result.text = AnswerDangling
  /\ returned.verification = "failed: truncated"

\* the list-style queries among those routed: they start with "list" and
\* with "name"
RoutedListQueries == {QueryList, QueryNameCompare}

\* C30: for a list-style query of difficulty below 0.6, whatever text and
\* token counts the local backend answers with, no verdict is truncated, the
\* retry counter stays at 0, the local backend is called at most once, and
\* exactly once when route() returns, and the result is never tagged
\* 'repaired'.
C30_ListQueryCalledOnce ==
  (Started /\ query \in RoutedListQueries /\ difficulty < 600) =>
     /\ \A i \in DOMAIN verdicts : ~verdicts[i].truncated
     /\ retry_count = 0
     /\ LocalCalls <= 1
     /\ Returned => (LocalCalls = 1 /\ returned.routing_decision # "repaired")

\* C30 witness: "Name and compare two languages" answered with a dangling
\* text that used the whole budget of 256 tokens; one local call was made.
C30_Witness ==
  /\ query = QueryNameCompare /\ Medium /\ Done /\ LocalCalls = 1
  /\ Len(verdicts) = 1 /\ ~verdicts[1].truncated
  /\ local_result.text = AnswerDangling /\ local_result.output_tokens = 256
  /\ calls[1].max_tokens = 256

\* the reasons that the truncation, uncertainty and lexical-coverage checks
\* give
LexicalReasons == {"truncated", "uncertainty", "low_relevance (basic coverage failed)"}

\* C21: when the verifier has no embedding client, or one of its two _embed
\* calls fails, verify() returns a verdict (it raises nothing) and the verdict
\* is the one of a verifier without a client: low_relevance is flagged exactly
\* when the lexical coverage check of a query of difficulty 0.3 or more
\* fails, and no reason names a similarity.
C21_NoEmbeddingLeavesLexicalVerdict ==
  (Verified /\ ~SimilarityComputed) =>
     /\ verify_result.passed \in BOOLEAN
     /\ verify_result =
          verify(verify_call.answer, verify_call.output_tokens, verify_call.max_tokens,
                 verify_call.query, verify_call.difficulty, NoEmbeddingClient)
     /\ verify_result.low_relevance <=>
          /\ verify_call.query # <<>> /\ verify_call.difficulty >= 300
          /\ ~basic_coverage(verify_call.query, verify_call.answer)
     /\ \A i \in DOMAIN verify_result.reasons : verify_result.reasons[i] \in LexicalReasons

\* C21 witness: a medium query whose answer embedding failed; the answer
\* covers the query's words, so the verdict passes with no reason at all.
C21_Witness ==
  /\ Verified /\ verify_call.emb.client /\ verify_call.emb.query_ok
  /\ ~verify_call.emb.answer_ok
  /\ verify_call.query = QueryExplain /\ verify_call.difficulty = 599
  /\ basic_coverage(verify_call.query, verify_call.answer)
  /\ verify_result.passed /\ verify_result.reasons = <<>>

\* estimate() has been called on the query of the experiment
Estimated == estimate_call # None /\ estimate_results.query # <<>>

C25_AppendedKeywordNeverLowers ==
  estimate_call # None =>
     \A i \in DOMAIN estimate_results.appended :
        /\ estimate_results.appended[i] >= 600
        /\ \A j \in DOMAIN estimate_results.query :
             estimate_results.appended[i] >= estimate_results.query[j]

\* C26: estimate() puts each labelled sample query of the test script in the
\* band of its label: the five 'Easy' ones below 0.3, the five 'Medium' ones
\* from 0.3 up to but not including 0.6, the five 'Hard' ones at 0.6 or more.
C26_SamplesScoreInLabelledBand ==
  Estimated =>
     \A i \in DOMAIN estimate_results.query :
        /\ estimate_call.query \in EasySamples => estimate_results.query[i] < 300
        /\ estimate_call.query \in MediumSamples =>
             (estimate_results.query[i] >= 300 /\ estimate_results.query[i] < 600)
        /\ estimate_call.query \in HardSamples => estimate_results.query[i] >= 600

\* the routed queries that contain a HARD keyword: "prove", and "how" inside
\* "Show"
HardKeywordQueries == {QueryProve, QueryShow}

\* the routed queries that contain a multi-part phrase: "advantages and
\* disadvantages"
MultiPartQueries == {QueryAdvantages}

\* C24: a query that contains a HARD keyword scores 0.6 or more, so route()
\* calls the remote backend only, or raises the ValueError without any call
\* when there is none; a query that contains a multi-part phrase scores 0.5
\* or more, so route() never takes the easy path: its first call does not
\* have the easy budget and its result is labelled with a difficulty of 0.5
\* or more.
C24_KeywordFloorsDecideTheRoute ==
  /\ (Started /\ query \in HardKeywordQueries) =>
        /\ \E k \in HARD_KEYWORDS : Contains(Lower(query), k)
        /\ difficulty >= 600
        /\ pc \in {"hard", "returned", "raised"}
        /\ LocalCalls = 0
        /\ remote_llm = "none" => (pc = "raised" /\ error = "ValueError" /\ calls = <<>>)
        /\ Returned => (RemoteCalls = 1 /\ returned.routing_decision = "remote")
  /\ (Started /\ query \in MultiPartQueries) =>
        /\ \E p \in MULTI_PART_PHRASES : Contains(Lower(query), p)
        /\ difficulty >= 500
        /\ pc # "easy"
        /\ calls # <<>> => calls[1].max_tokens # 128
        /\ Returned => returned.difficulty >= 500

\* C24 witness: "Show me Python", whose weighted score is 0.525, was sent to
\* the remote backend with the hard budget and came back as 'remote'.
C24_Witness ==
  /\ query = QueryShow /\ Returned /\ difficulty = 600
  /\ calls = <<Call("remote", QueryShow, 512)>>
  /\ returned.routing_decision = "remote"

\* the two invocations: the one that is running and the one that is parked
Invocations == {Running, parked}

\* C27: route() writes no field of the router, and with stateless backends
\* each of two interleaved invocations on one router makes the backend calls
\* that route() makes on its own for the same query, in the same order, and
\* ends as it does on its own: with the same result or the same error.
C27_InterleavedAsAlone ==
  /\ [](backends # None =>
          \A inv \in Invocations :
             inv.pc # "idle" =>
                \A alone \in {route_alone(inv.query)} :
                   /\ Len(inv.calls) <= Len(alone.calls)
                   /\ inv.calls = SubSeq(alone.calls, 1, Len(inv.calls))
                   /\ inv.pc \in {"returned", "raised"} =>
                        /\ inv.calls = alone.calls
                        /\ inv.returned = alone.returned
                        /\ inv.error = alone.error)
  /\ [][UNCHANGED <<remote_llm, embedding_client, backends>>]_vars

\* C27 witness: both invocations have retried.  One is suspended inside its
\* easy loop after a truncated first answer, with its counter at 1 and its
\* budget doubled to 256; the other, on a medium query, has its own counter
\* at 1 and returned a repaired result from its second call, made with 512
\* tokens.
C27_Witness ==
  /\ backends # None
  /\ parked.pc = "easy" /\ parked.retry_count = 1 /\ Len(parked.calls) = 1
  /\ parked.current_max_tokens = 256
  /\ pc = "returned" /\ retry_count = 1 /\ Len(calls) = 2
  /\ calls[2].max_tokens = 512 /\ returned.routing_decision = "repaired"
=============================================================================
